---- MODULE Spec2Model ----
(***************************************************************************)
(* A model of cropfish (src/cropfish/cropfish.py): the module-level        *)
(* statements of the script, the body of cropfish_cli, find_corners,       *)
(* scale_corners and crop_image.                                           *)
(*                                                                         *)
(* Coordinates are the code's floating-point pixel coordinates, held here  *)
(* as exact fixed-point numbers: an integer n stands for n/Unit pixels.    *)
(* The detector's sub-pixel outputs are quarter pixels, so that the        *)
(* multiplication by 1/resize_factor, the halving of line 16 and the 8/6   *)
(* of lines 17-19 are all exact in this representation.                    *)
(* None is the empty tuple; an optional image is <<>> or <<image>>.        *)
(***************************************************************************)
EXTENDS Integers, Sequences, FiniteSets

VARIABLES
    entry,      \* "script": python cropfish.py <image_path>; "callback": the body of cropfish_cli; "function": a direct call
    pc,         \* position of the run
    ip,         \* index of the next module-level statement
    names,      \* names bound in the module's namespace
    readable,   \* whether the file at image_path decodes as an image
    file,       \* the image stored in the file at image_path
    image,      \* cropfish_cli's image (None or <<image>>)
    ti,         \* find_corners: index of threshold_value in the loop of line 35
    attempts,   \* find_corners: one record per call of cv2.findChessboardCorners
    stdout,     \* the lines printed
    coord1, coord2,     \* the pair find_corners returned (or the pair a direct call is given)
    scaled1, scaled2,   \* the pair scale_corners returned
    cropped,    \* the image crop_image returned (None or <<image>>)
    output,     \* the successive contents written to output.png
    calls,      \* the calls made by cropfish_cli, in order
    status,     \* "running", "success" (exit status 0) or "failure" (non-zero)
    error       \* the exception that ended the run, "" if none

vars == <<entry, pc, ip, names, readable, file, image, ti, attempts, stdout,
          coord1, coord2, scaled1, scaled2, cropped, output, calls, status, error>>

\* ---------------------------------------------------------------- bounds

\* Width and height of the photograph given to the command.
ImgW == 20
ImgH == 20
\* Width and height of the image of a direct call of crop_image, and how far
\* (in pixels) the coordinates of a direct call may lie outside it.
FnW == 3
FnH == 2
FnMargin == 1

\* ------------------------------------------------------------ arithmetic

None == <<>>

\* Units per pixel.
Unit == 3 * 4
Quarter == Unit \div 4

Min2(a, b) == IF a <= b THEN a ELSE b
Max2(a, b) == IF a >= b THEN a ELSE b

\* int(x) of a float: truncation toward zero, in whole pixels.
Trunc(v) == IF v >= 0 THEN v \div Unit ELSE -((-v) \div Unit)

VAdd(a, b) == <<a[1] + b[1], a[2] + b[2]>>
VSub(a, b) == <<a[1] - b[1], a[2] - b[2]>>
\* a * (f[1]/f[2])
VMul(a, f) == <<(a[1] * f[1]) \div f[2], (a[2] * f[1]) \div f[2]>>

\* ------------------------------------------------------------ the images

\* An h x w image whose pixel at row r, column c is px[r, c]; all pixels of
\* MakeImage differ, so that two crops are equal only if they select the
\* same pixels.
MakeImage(h, w) ==
    [h |-> h, w |-> w, px |-> [r \in 0..(h - 1), c \in 0..(w - 1) |-> r * w + c]]

\* cv::Mat::empty(): no element.
Empty(img) == img.h = 0 \/ img.w = 0

\* --------------------------------------------------------- scale_corners

\* Line 17 under an integer division: 8 / 6 = 1.
scaling_factor_floor == <<1, 1>>
\* Line 17 with the ratio inverted.
scaling_factor_inverted == <<6, 8>>
\* scaling_factor = 8 / 6, as numerator and denominator.
scaling_factor == <<8, 6>>

\* center = (coord1 + coord2) / 2
center(c1, c2) == VMul(VAdd(c1, c2), <<1, 2>>)

\* scale_corners(coord1, coord2) -> <<scaled_coord1, scaled_coord2>>
scale_corners(c1, c2) ==
    LET c == center(c1, c2)
    IN  << VAdd(c, VMul(VSub(c1, c), scaling_factor)),
           VAdd(c, VMul(VSub(c2, c), scaling_factor)) >>

\* ------------------------------------------------------------ crop_image

\* Lines 58-59 without the min/max: coord1 taken as the top-left corner.
CropBoundsUnordered(c1, c2) ==
    [min_x |-> Trunc(c1[1]), max_x |-> Trunc(c2[1]),
     min_y |-> Trunc(c1[2]), max_y |-> Trunc(c2[2])]
\* Lines 58-59: min_x, max_x, min_y, max_y.
CropBounds(c1, c2) ==
    [min_x |-> Trunc(Min2(c1[1], c2[1])), max_x |-> Trunc(Max2(c1[1], c2[1])),
     min_y |-> Trunc(Min2(c1[2], c2[2])), max_y |-> Trunc(Max2(c1[2], c2[2]))]

\* One bound of a slice of an axis of length n (Python's slice.indices, step
\* 1): a negative index counts from the end, and the result is clipped to
\* 0..n.
SliceIndex(i, n) == IF i < 0 THEN Max2(i + n, 0) ELSE Min2(i, n)

\* The indices start..stop-1 that a[start:stop] selects, as <<first, count>>.
SliceRange(start, stop, n) ==
    LET a == SliceIndex(start, n)
        b == SliceIndex(stop, n)
    IN  <<a, Max2(b - a, 0)>>

\* img[y0:y1, x0:x1] with the axes exchanged.
Slice2DTransposed(img, y0, y1, x0, x1) ==
    LET ys == SliceRange(x0, x1, img.h)
        xs == SliceRange(y0, y1, img.w)
    IN  [h |-> ys[2], w |-> xs[2],
         px |-> [r \in 0..(ys[2] - 1), c \in 0..(xs[2] - 1) |->
                    img.px[ys[1] + r, xs[1] + c]]]
\* img[y0:y1, x0:x1]
Slice2D(img, y0, y1, x0, x1) ==
    LET ys == SliceRange(y0, y1, img.h)
        xs == SliceRange(x0, x1, img.w)
    IN  [h |-> ys[2], w |-> xs[2],
         px |-> [r \in 0..(ys[2] - 1), c \in 0..(xs[2] - 1) |->
                    img.px[ys[1] + r, xs[1] + c]]]

\* crop_image(image, coord1, coord2) -> cropped_image
crop_image(img, c1, c2) ==
    LET b == CropBounds(c1, c2)
    IN  Slice2D(img, b.min_y, b.max_y, b.min_x, b.max_x)

\* ------------------------------------------- direct calls of the functions

\* The coordinates of a direct call: half pixels, from FnMargin pixels
\* before the image to FnMargin pixels past it.
HalfPixels(lo, hi) == { k * (Unit \div 2) : k \in (2 * lo)..(2 * hi) }
FnCoords == HalfPixels(-FnMargin, FnW + FnMargin) \X HalfPixels(-FnMargin, FnH + FnMargin)

InitFn ==
    /\ entry = "function"
    /\ pc = "call"
    /\ ip = 0
    /\ names = {}
    /\ readable = TRUE
    /\ file = MakeImage(FnH, FnW)
    /\ image = <<file>>
    /\ ti = 0
    /\ attempts = <<>>
    /\ stdout = <<>>
    /\ coord1 \in FnCoords
    /\ coord2 \in FnCoords
    /\ scaled1 = None
    /\ scaled2 = None
    /\ cropped = None
    /\ output = <<>>
    /\ calls = <<>>
    /\ status = "running"
    /\ error = ""

\* scale_corners(coord1, coord2)
CallScaleCorners ==
    /\ entry = "function"
    /\ pc = "call"
    /\ LET s == scale_corners(coord1, coord2)
       IN  /\ scaled1' = s[1]
           /\ scaled2' = s[2]
    /\ calls' = Append(calls, "scale_corners")
    /\ pc' = "scaled"
    /\ status' = "success"
    /\ UNCHANGED <<entry, ip, names, readable, file, image, ti, attempts, stdout,
                   coord1, coord2, cropped, output, error>>

\* crop_image(image, coord1, coord2)
CallCropImage ==
    /\ entry = "function"
    /\ pc = "call"
    /\ cropped' = <<crop_image(image[1], coord1, coord2)>>
    /\ calls' = Append(calls, "crop_image")
    /\ pc' = "cropped"
    /\ status' = "success"
    /\ UNCHANGED <<entry, ip, names, readable, file, image, ti, attempts, stdout,
                   coord1, coord2, scaled1, scaled2, output, error>>

NextFn == CallScaleCorners \/ CallCropImage

SpecFn == InitFn /\ [][NextFn]_vars


\* ------------------------------------------------- the module's statements

\* The names Python binds before the first statement of the file runs.
Builtins == {"__name__", "__doc__", "dict", "print", "int", "min", "max"}

\* The statements the interpreter executes when it loads the file, in order:
\* the names each one looks up when it is executed (a def evaluates its
\* decorators and its annotations) and the names it binds.
ModuleStatements == <<
    [line |-> 1,  kind |-> "import", uses |-> {}, binds |-> {"cv2"}],
    [line |-> 2,  kind |-> "import", uses |-> {}, binds |-> {"np"}],
    [line |-> 3,  kind |-> "import", uses |-> {}, binds |-> {"Tuple", "Union"}],
    [line |-> 5,  kind |-> "def", uses |-> {"np", "Tuple"}, binds |-> {"scale_corners"}],
    [line |-> 22, kind |-> "def", uses |-> {"np", "Tuple", "Union"}, binds |-> {"find_corners"}],
    [line |-> 46, kind |-> "def", uses |-> {"np"}, binds |-> {"crop_image"}],
    [line |-> 63, kind |-> "def", uses |-> {"click", "dict", "__doc__"}, binds |-> {"cropfish_cli"}],
    [line |-> 81, kind |-> "main", uses |-> {"__name__", "cropfish_cli"}, binds |-> {}] >>

ModuleNames == UNION { ModuleStatements[i].binds : i \in 1..Len(ModuleStatements) }

\* ----------------------------------------------------------- find_corners

\* for threshold_value in (160, 192), shortened to its first value.
threshold_values_first_only == <<160>>
\* for threshold_value in (160, 192)
threshold_values == <<160, 192>>

\* pattern_size = (7, 7)
pattern_size == <<7, 7>>

\* resize_factor = 0.5, as numerator and denominator.
resize_factor == <<1, 2>>

\* 1 / resize_factor
Inverse(f) == <<f[2], f[1]>>

\* The size cv2.resize gives an axis of n pixels: n * resize_factor rounded
\* to the nearest integer, a tie to the even one.
ResizedDim(n) ==
    LET q == (n * resize_factor[1]) \div resize_factor[2]
        r == (n * resize_factor[1]) % resize_factor[2]
    IN  IF 2 * r < resize_factor[2] THEN q
        ELSE IF 2 * r > resize_factor[2] THEN q + 1
        ELSE IF q % 2 = 0 THEN q ELSE q + 1

\* The corners of a detected board, in the detector's order (row by row):
\* corner k is o + col * u + row * v.
Grid(o, u, v) ==
    [k \in 1..(pattern_size[1] * pattern_size[2]) |->
        VAdd(o, VAdd(VMul(u, <<(k - 1) % pattern_size[1], 1>>),
                     VMul(v, <<(k - 1) \div pattern_size[1], 1>>)))]

\* The directions <<u, v>> of a board whose squares are one pixel of the
\* resized image: upright, transposed, turned by 180 degrees, mirrored, and
\* turned by 45 degrees either way.
Orientations ==
    LET s == Unit
        d == Unit \div 2
    IN  { << <<s, 0>>, <<0, s>> >>, << <<0, s>>, <<s, 0>> >>,
          << <<-s, 0>>, <<0, -s>> >>, << <<-s, 0>>, <<0, s>> >>,
          << <<d, d>>, <<-d, d>> >>, << <<d, d>>, <<d, -d>> >> }

InResized(p, rw, rh) ==
    /\ 0 <= p[1] /\ p[1] <= (rw - 1) * Unit
    /\ 0 <= p[2] /\ p[2] <= (rh - 1) * Unit

\* What cv2.findChessboardCorners may return for a binary image of rw x rh
\* pixels: no board, or the corners of a board lying in the image, at
\* quarter-pixel positions.
DetectorOutcomes(rw, rh) ==
    LET last == pattern_size[1] * pattern_size[2]
        ends == {1, pattern_size[1], last - pattern_size[1] + 1, last}
        origins == { <<i * Quarter, j * Quarter>> :
                        i \in 0..(4 * (rw - 1)), j \in 0..(4 * (rh - 1)) }
        fits == { g \in origins \X Orientations :
                    \A k \in ends : InResized(Grid(g[1], g[2][1], g[2][2])[k], rw, rh) }
    IN  { [ret |-> FALSE, corners |-> <<>>] }
        \cup { [ret |-> TRUE, corners |-> Grid(g[1], g[2][1], g[2][2])] : g \in fits }

\* corners *= 1 / resize_factor
Rescale(corners) == [k \in DOMAIN corners |-> VMul(corners[k], Inverse(resize_factor))]

\* return corners[0][0], corners[1][0]
ReturnedCornersFirstTwo(corners) == <<corners[1], corners[2]>>
\* return corners[0][0], corners[-1][0]
ReturnedCorners(corners) == <<corners[1], corners[Len(corners)]>>

Message(text, value) == [text |-> text, value |-> value]

\* ---------------------------------------------------------------- the run

Init ==
    /\ entry \in {"script", "callback"}
    /\ pc = (IF entry = "script" THEN "module" ELSE "Load")
    /\ ip = (IF entry = "script" THEN 1 ELSE Len(ModuleStatements))
    /\ names = (IF entry = "script" THEN Builtins ELSE Builtins \cup ModuleNames \cup {"click"})
    /\ readable \in BOOLEAN
    /\ file = MakeImage(ImgH, ImgW)
    /\ image = None
    /\ ti = 1
    /\ attempts = <<>>
    /\ stdout = <<>>
    /\ coord1 = None
    /\ coord2 = None
    /\ scaled1 = None
    /\ scaled2 = None
    /\ cropped = None
    /\ output = <<>>
    /\ calls = <<>>
    /\ status = "running"
    /\ error = ""

Raise(e) ==
    /\ pc' = "error"
    /\ status' = "failure"
    /\ error' = e

\* One module-level statement: a name that is not bound raises NameError and
\* ends the process; the last statement calls the command, which runs the
\* body of cropfish_cli.
ExecModuleStatement ==
    /\ entry = "script"
    /\ pc = "module"
    /\ ip <= Len(ModuleStatements)
    /\ LET s == ModuleStatements[ip]
       IN  IF ~(s.uses \subseteq names)
           THEN /\ Raise("NameError")
                /\ UNCHANGED <<ip, names>>
           ELSE /\ names' = names \cup s.binds
                /\ IF s.kind = "main"
                   THEN /\ pc' = "Load"
                        /\ UNCHANGED ip
                   ELSE /\ pc' = "module"
                        /\ ip' = ip + 1
                /\ UNCHANGED <<status, error>>
    /\ UNCHANGED <<entry, readable, file, image, ti, attempts, stdout, coord1, coord2,
                   scaled1, scaled2, cropped, output, calls>>

\* image = cv2.imread(image_path): None when the file does not decode.
Load ==
    /\ pc = "Load"
    /\ image' = (IF readable THEN <<file>> ELSE None)
    /\ calls' = Append(calls, "imread")
    /\ pc' = "Resize"
    /\ UNCHANGED <<entry, ip, names, readable, file, ti, attempts, stdout, coord1, coord2,
                   scaled1, scaled2, cropped, output, status, error>>

\* find_corners, lines 33-34: cv2.resize and cv2.cvtColor; cv2.resize raises
\* on None.
Resize ==
    /\ pc = "Resize"
    /\ calls' = Append(calls, "find_corners")
    /\ IF image = None
       THEN Raise("cv2.error")
       ELSE /\ pc' = "Threshold"
            /\ UNCHANGED <<status, error>>
    /\ ti' = 1
    /\ UNCHANGED <<entry, ip, names, readable, file, image, attempts, stdout, coord1, coord2,
                   scaled1, scaled2, cropped, output>>

\* find_corners, lines 35-42: one iteration of the loop.
TryThreshold ==
    /\ pc = "Threshold"
    /\ ti <= Len(threshold_values)
    /\ \E d \in DetectorOutcomes(ResizedDim(image[1].w), ResizedDim(image[1].h)) :
        /\ stdout' = Append(stdout, Message("Trying threshold", <<threshold_values[ti]>>))
        /\ attempts' = Append(attempts,
                [threshold_value |-> threshold_values[ti], ret |-> d.ret, corners |-> d.corners])
        /\ IF d.ret
           THEN LET r == ReturnedCorners(Rescale(d.corners))
                IN  /\ coord1' = r[1]
                    /\ coord2' = r[2]
                    /\ pc' = "Returned"
                    /\ UNCHANGED ti
           ELSE /\ ti' = ti + 1
                /\ UNCHANGED <<coord1, coord2, pc>>
    /\ UNCHANGED <<entry, ip, names, readable, file, image, scaled1, scaled2, cropped,
                   output, calls, status, error>>

\* find_corners, lines 43-44: the loop ended without a detection.
NotFound ==
    /\ pc = "Threshold"
    /\ ti > Len(threshold_values)
    /\ stdout' = Append(stdout, Message("Checkerboard corners not found.", <<>>))
    /\ coord1' = None
    /\ coord2' = None
    /\ pc' = "Returned"
    /\ UNCHANGED <<entry, ip, names, readable, file, image, ti, attempts, scaled1, scaled2,
                   cropped, output, calls, status, error>>

\* Line 75: if coord1 is not None and coord2 is not None; otherwise the
\* callback returns and the process exits with status 0.
CheckCorners ==
    /\ pc = "Returned"
    /\ IF coord1 # None /\ coord2 # None
       THEN /\ pc' = "Scale"
            /\ UNCHANGED status
       ELSE /\ pc' = "done"
            /\ status' = "success"
    /\ UNCHANGED <<entry, ip, names, readable, file, image, ti, attempts, stdout, coord1,
                   coord2, scaled1, scaled2, cropped, output, calls, error>>

\* Lines 76-77.
Scale ==
    /\ pc = "Scale"
    /\ LET s == scale_corners(coord1, coord2)
       IN  /\ scaled1' = s[1]
           /\ scaled2' = s[2]
           /\ stdout' = Append(stdout,
                Message("Coordinates for the 8x8 checkerboard rectangle:", <<s[1], s[2]>>))
    /\ calls' = Append(calls, "scale_corners")
    /\ pc' = "Crop"
    /\ UNCHANGED <<entry, ip, names, readable, file, image, ti, attempts, coord1, coord2,
                   cropped, output, status, error>>

\* Line 78.
Crop ==
    /\ pc = "Crop"
    /\ cropped' = <<crop_image(image[1], scaled1, scaled2)>>
    /\ calls' = Append(calls, "crop_image")
    /\ pc' = "Save"
    /\ UNCHANGED <<entry, ip, names, readable, file, image, ti, attempts, stdout, coord1,
                   coord2, scaled1, scaled2, output, status, error>>

\* Line 79: cv2.imwrite("output.png", cropped_image). cv2.imwrite asserts
\* that the image is not empty and raises cv2.error when it is; otherwise
\* the file is written, the callback returns and the process exits with
\* status 0.
Save ==
    /\ pc = "Save"
    /\ calls' = Append(calls, "imwrite")
    /\ IF Empty(cropped[1])
       THEN /\ Raise("cv2.error")
            /\ UNCHANGED output
       ELSE /\ output' = Append(output, cropped[1])
            /\ pc' = "done"
            /\ status' = "success"
            /\ UNCHANGED error
    /\ UNCHANGED <<entry, ip, names, readable, file, image, ti, attempts, stdout, coord1,
                   coord2, scaled1, scaled2, cropped>>

Next ==
    \/ ExecModuleStatement
    \/ Load
    \/ Resize
    \/ TryThreshold
    \/ NotFound
    \/ CheckCorners
    \/ Scale
    \/ Crop
    \/ Save

Spec == Init /\ [][Next]_vars


\* ============================================================== the claims

Terminated == pc \in {"done", "error"}

BothCornersPresent == coord1 # None /\ coord2 # None

FoundCalls == <<"imread", "find_corners", "scale_corners", "crop_image", "imwrite">>
NotFoundCalls == <<"imread", "find_corners">>

\* C1: in every run of cropfish_cli, output.png is written if and only if
\* find_corners returned two present corners: with an absent corner the run
\* ends without scale_corners, crop_image or the write; with both present it
\* performs Scale, then Crop, then exactly one write of output.png.
C1_OutputIffCornersFound ==
    (Terminated /\ Len(calls) > 0) =>
        /\ (Len(output) = 1) <=> BothCornersPresent
        /\ ~BothCornersPresent => (calls = NotFoundCalls /\ output = <<>>)
        /\ BothCornersPresent => (calls = FoundCalls /\ Len(output) = 1)

\* The pixels of img in columns [min_x, max_x) and rows [min_y, max_y),
\* restricted to the image: every bound clamped to the nearest edge.
Clamp(i, n) == Max2(0, Min2(i, n))
ClampedRectangle(img, c1, c2) ==
    LET x0 == Clamp(Trunc(Min2(c1[1], c2[1])), img.w)
        x1 == Clamp(Trunc(Max2(c1[1], c2[1])), img.w)
        y0 == Clamp(Trunc(Min2(c1[2], c2[2])), img.h)
        y1 == Clamp(Trunc(Max2(c1[2], c2[2])), img.h)
    IN  [h |-> y1 - y0, w |-> x1 - x0,
         px |-> [r \in 0..(y1 - y0 - 1), c \in 0..(x1 - x0 - 1) |-> img.px[y0 + r, x0 + c]]]

\* C2: for every image and coordinate pair, also with a coordinate below 0
\* or beyond the width or height, crop_image returns exactly the pixels in
\* columns [min_x, max_x) and rows [min_y, max_y) restricted to the image:
\* out-of-range indices are clamped to the edge. (Two images without any
\* pixel count as the same selection, whatever their shapes.)
C2_CropClampsToImage ==
    (entry = "function" /\ pc = "cropped") =>
        LET expected == ClampedRectangle(image[1], coord1, coord2)
        IN  \/ cropped[1] = expected
            \/ Empty(cropped[1]) /\ Empty(expected)

\* C3: find_corners tries threshold 160 first and 192 only after 160 failed,
\* makes at most two attempts with one progress message per attempt, and
\* returns the first and the last corner of the first successful detection,
\* each multiplied by 1/resize_factor = 2.
C3_ThresholdOrderAndCorners ==
    /\ Len(attempts) <= 2
    /\ \A i \in DOMAIN attempts :
        /\ attempts[i].threshold_value = <<160, 192>>[i]
        /\ \A j \in 1..(i - 1) : ~attempts[j].ret
    /\ LET tries == { i \in DOMAIN stdout : stdout[i].text = "Trying threshold" }
       IN  /\ Cardinality(tries) = Len(attempts)
           /\ \A i \in tries : i <= Len(attempts) /\ stdout[i].value = <<attempts[i].threshold_value>>
    /\ (entry # "function" /\ BothCornersPresent) =>
         LET a == attempts[Len(attempts)]
             n == Len(a.corners)
         IN  /\ a.ret
             /\ n = 49
             /\ coord1 = <<2 * a.corners[1][1], 2 * a.corners[1][2]>>
             /\ coord2 = <<2 * a.corners[n][1], 2 * a.corners[n][2]>>

C3_Witness ==
    /\ pc = "Returned"
    /\ Len(attempts) = 2
    /\ attempts[2].ret
    /\ BothCornersPresent

BothThresholdsFailed ==
    /\ Len(attempts) = 2
    /\ attempts[1].threshold_value = 160 /\ ~attempts[1].ret
    /\ attempts[2].threshold_value = 192 /\ ~attempts[2].ret

\* C4: find_corners returns (None, None) exactly when detection fails at
\* 160 and at 192; it then returns normally, raising nothing, and it never
\* returns one present and one absent corner.
C4_NotFoundIffBothFail ==
    /\ (coord1 = None) <=> (coord2 = None)
    /\ pc = "Returned" => ((coord1 = None /\ coord2 = None) <=> BothThresholdsFailed)
    /\ (BothThresholdsFailed /\ pc # "Threshold") =>
            /\ pc \in {"Returned", "done"}
            /\ error = ""
            /\ coord1 = None /\ coord2 = None

C4_Witness ==
    /\ pc = "Returned"
    /\ BothThresholdsFailed
    /\ coord1 = None /\ coord2 = None

Degenerate(b) == b.min_x >= b.max_x \/ b.min_y >= b.max_y

\* C5: a degenerate crop rectangle is never an error: crop_image returns an
\* empty image, and a run of cropfish_cli that reaches Crop with such a
\* rectangle completes the Save step and produces output.png instead of
\* ending in an error state.
C5_DegenerateCropIsSaved ==
    (entry = "callback" /\ cropped # None /\ Degenerate(CropBounds(scaled1, scaled2))) =>
        /\ Empty(cropped[1])
        /\ error = ""
        /\ Terminated => (status = "success" /\ Len(output) = 1)

\* C6: every command-line invocation on an existing, readable image follows
\* Load, Detect and then Scale, Crop, Save or Abort, and exits with success
\* status; no step fails before Load.
C6_InvocationSucceeds ==
    (entry = "script" /\ readable) =>
        /\ status = "failure" => Len(calls) > 0
        /\ Terminated => (status = "success" /\ calls \in {FoundCalls, NotFoundCalls})

\* C7: scale_corners is a dilation by exactly 8/6 about the midpoint of the
\* pair: the scaled pair has the midpoint of the pair, and each scaled point
\* lies 8/6 as far from it as the point, on each axis. (Stated on twice the
\* center, so that nothing is divided.)
C7_DilationAboutMidpoint ==
    (entry = "function" /\ pc = "scaled") =>
        LET twice == VAdd(coord1, coord2)
        IN  /\ VAdd(scaled1, scaled2) = twice
            /\ \A k \in 1..2 :
                /\ 6 * (2 * scaled1[k] - twice[k]) = 8 * (2 * coord1[k] - twice[k])
                /\ 6 * (2 * scaled2[k] - twice[k]) = 8 * (2 * coord2[k] - twice[k])

C7_Witness ==
    /\ entry = "function" /\ pc = "scaled"
    /\ coord1[1] < coord2[1] /\ coord1[2] > coord2[2]
    /\ scaled1[1] < coord1[1] /\ scaled1[2] > coord1[2]

TruncatedInBounds(img, c1, c2) ==
    /\ 0 <= Trunc(Min2(c1[1], c2[1])) /\ Trunc(Max2(c1[1], c2[1])) <= img.w
    /\ 0 <= Trunc(Min2(c1[2], c2[2])) /\ Trunc(Max2(c1[2], c2[2])) <= img.h

\* C8: when the truncated coordinates lie within the image, crop_image
\* returns max_y - min_y rows and max_x - min_x columns, and its pixel at
\* (r, c) is the image's pixel at (min_y + r, min_x + c).
C8_InBoundsShapeAndPixels ==
    (entry = "function" /\ pc = "cropped" /\ TruncatedInBounds(image[1], coord1, coord2)) =>
        LET x0 == Trunc(Min2(coord1[1], coord2[1]))
            x1 == Trunc(Max2(coord1[1], coord2[1]))
            y0 == Trunc(Min2(coord1[2], coord2[2]))
            y1 == Trunc(Max2(coord1[2], coord2[2]))
        IN  /\ cropped[1].h = y1 - y0
            /\ cropped[1].w = x1 - x0
            /\ \A r \in 0..(y1 - y0 - 1), c \in 0..(x1 - x0 - 1) :
                    cropped[1].px[r, c] = image[1].px[y0 + r, x0 + c]

C8_Witness ==
    /\ entry = "function" /\ pc = "cropped"
    /\ TruncatedInBounds(image[1], coord1, coord2)
    /\ Trunc(Min2(coord1[1], coord2[1])) > 0
    /\ cropped[1].h >= 1 /\ cropped[1].w >= 2

\* C9: crop_image is order-independent: exchanging the two coordinates
\* gives the same image, whichever corner each of them is.
C9_CropOrderIndependent ==
    (entry = "function" /\ pc = "cropped") =>
        cropped[1] = crop_image(image[1], coord2, coord1)

C9_Witness ==
    /\ entry = "function" /\ pc = "cropped"
    /\ coord1[1] > coord2[1] /\ coord1[2] < coord2[2]
    /\ ~Empty(cropped[1])

\* C10: in a run in which corners are found, the crop rectangle covers the
\* rectangle of the detected corners: on each axis the truncated minimum of
\* the scaled pair is at most that of the detected pair, and the truncated
\* maximum at least that of the detected pair.
C10_CropCoversDetected ==
    (entry = "callback" /\ cropped # None) =>
        LET b == CropBounds(scaled1, scaled2)
        IN  /\ b.min_x <= Trunc(Min2(coord1[1], coord2[1]))
            /\ b.max_x >= Trunc(Max2(coord1[1], coord2[1]))
            /\ b.min_y <= Trunc(Min2(coord1[2], coord2[2]))
            /\ b.max_y >= Trunc(Max2(coord1[2], coord2[2]))

C10_Witness ==
    /\ entry = "callback" /\ pc = "done" /\ Len(output) = 1
    /\ CropBounds(scaled1, scaled2).min_x < Trunc(Min2(coord1[1], coord2[1]))
    /\ CropBounds(scaled1, scaled2).max_y > Trunc(Max2(coord1[2], coord2[2]))

====
